---- MODULE Spec2Model ----
(***************************************************************************)
(* scripts/swebench-sample.py: proportional stratified sampling by repo.   *)
(*                                                                         *)
(* proportional_allocations is modelled statement by statement (one step   *)
(* per loop iteration), with the float arithmetic of line 71 and line 75   *)
(* computed bit by bit as IEEE-754 binary64 (round to nearest, ties to     *)
(* even).  build_sample and main are modelled on top of it.                *)
(***************************************************************************)
EXTENDS Integers, Sequences, FiniteSets, TLC

(***************************************************************************)
(* Bounds of the model.                                                    *)
(***************************************************************************)
\* Largest number of records of one group in the allocator harness.
MaxSize == 4
\* How far beyond the pool size the allocator harness lets target go.
MaxOver == 2

\* Largest number of rows of the instances file in a run of main.
MaxLen == 3
\* Largest --count of a run of main.
MaxCount == 2

\* Group (repo) names; "a" < "b" < "c" in Python's string order.
Repos == {"a", "b", "c"}

\* Python's str comparison restricted to Repos.
RepoRank(r) == CASE r = "a" -> 1 [] r = "b" -> 2 [] r = "c" -> 3

StrLess(r1, r2) == RepoRank(r1) < RepoRank(r2)

(***************************************************************************)
(* IEEE-754 binary64, round to nearest, ties to even.  A positive double   *)
(* is [e, l1, l2, l3]: its 53-bit significand M is kept in three limbs,    *)
(* M = l1 * 2^36 + l2 * 2^18 + l3 with 2^16 <= l1 < 2^17 and l2, l3 < 2^18 *)
(* (no limb product leaves the 32-bit integers), and its value is          *)
(* M * 2^(e - 52), so that 2^e <= value < 2^(e+1).  Zero has l1 = 0.       *)
(***************************************************************************)
MantBits == 53

LimbBits == 18

Limb == 2 ^ LimbBits

TopLimb == 2 ^ (MantBits - 2 * LimbBits)

FZero == [e |-> 0, l1 |-> 0, l2 |-> 0, l3 |-> 0]

\* The double nearest to a number in [2^e, 2^(e+1)) whose first 53 bits are
\* the limbs l1, l2, l3: `up` says the part cut off exceeds half a unit in the
\* last place, `tie` that it is exactly half.
RoundNearestEven(e, l1, l2, l3, up, tie) ==
    IF up \/ (tie /\ l3 % 2 = 1)
    THEN LET n3 == (l3 + 1) % Limb
             c3 == (l3 + 1) \div Limb
             n2 == (l2 + c3) % Limb
             c2 == (l2 + c3) \div Limb
             n1 == l1 + c2
         IN  IF n1 = TopLimb
             THEN [e |-> e + 1, l1 |-> TopLimb \div 2, l2 |-> 0, l3 |-> 0]
             ELSE [e |-> e, l1 |-> n1, l2 |-> n2, l3 |-> n3]
    ELSE [e |-> e, l1 |-> l1, l2 |-> l2, l3 |-> l3]

\* The double nearest to n/d, for integers 0 <= n <= d, 0 < d < 2^13:
\* Python's  len(items) / total.  Long division, 17 + 18 + 18 bits.
FDiv(n, d) ==
    IF n = 0 THEN FZero
    ELSE LET \* 2^-z <= n/d < 2^(1-z)
             z == CHOOSE k \in 0..13 :
                      n * 2 ^ k >= d /\ (k = 0 \/ n * 2 ^ (k - 1) < d)
             n1 == n * 2 ^ (z + MantBits - 2 * LimbBits - 1)
             l1 == n1 \div d
             r1 == n1 % d
             l2 == (r1 * Limb) \div d
             r2 == (r1 * Limb) % d
             l3 == (r2 * Limb) \div d
             r3 == (r2 * Limb) % d
         IN  RoundNearestEven(-z, l1, l2, l3, 2 * r3 > d, 2 * r3 = d)

\* The double nearest to k * x for an integer 0 <= k < 2^13 and a double
\* x >= 0:  Python's  target_count * (len(items) / total).
FMulInt(k, x) ==
    IF k = 0 \/ x.l1 = 0 THEN FZero
    ELSE LET p3 == k * x.l3
             p2 == k * x.l2 + p3 \div Limb
             p1 == k * x.l1 + p2 \div Limb
             q2 == p2 % Limb
             q3 == p3 % Limb
             \* the product has g bits more than 53
             g == CHOOSE j \in 0..13 :
                      (TopLimb \div 2) * 2 ^ j <= p1 /\ p1 < TopLimb * 2 ^ j
             w == 2 ^ g
             cut == q3 % w
         IN  RoundNearestEven(x.e + g,
                 p1 \div w,
                 (p1 % w) * (Limb \div w) + q2 \div w,
                 (q2 % w) * (Limb \div w) + q3 \div w,
                 2 * cut > w,
                 g > 0 /\ 2 * cut = w)

\* math.floor of a double 0 <= x < 2^17.
FFloor(x) ==
    IF x.l1 = 0 \/ x.e < 0 THEN 0
    ELSE x.l1 \div 2 ^ (MantBits - 2 * LimbBits - 1 - x.e)

\* Bit j of the significand of x, j = 1 (most significant) .. 53.
MantBit(x, j) ==
    IF j <= MantBits - 2 * LimbBits
    THEN (x.l1 \div 2 ^ (MantBits - 2 * LimbBits - j)) % 2
    ELSE IF j <= MantBits - LimbBits
    THEN (x.l2 \div 2 ^ (MantBits - LimbBits - j)) % 2
    ELSE (x.l3 \div 2 ^ (MantBits - j)) % 2

\* x - math.floor(x) for a double 0 <= x < 2^17: exact, no rounding.  Given as
\* its bits after the binary point (bit i has weight 2^-i), down to the last
\* bit of x's significand.
FFrac(x) ==
    IF x.l1 = 0 THEN << >>
    ELSE [i \in 1..(MantBits - 1 - x.e) |->
             IF x.e + i + 1 >= 1 THEN MantBit(x, x.e + i + 1) ELSE 0]

\* Bit i after the binary point of a fraction (0 beyond its last bit).
FracBit(f, i) == IF i <= Len(f) THEN f[i] ELSE 0

\* f1 < f2 for two fractions given by their bits after the binary point.
FracLess(f1, f2) ==
    \E i \in 1..Len(f2) :
        /\ FracBit(f1, i) < f2[i]
        /\ \A j \in 1..(i - 1) : FracBit(f1, j) = f2[j]

(***************************************************************************)
(* Data.  A row is [instance_id, repo].  `groups` is a Python dict from    *)
(* repo to its list of rows: a sequence of [repo, rows] entries with       *)
(* distinct repos, in insertion order (the order dict iteration follows).  *)
(***************************************************************************)
Min(a, b) == IF a <= b THEN a ELSE b

Max(a, b) == IF a >= b THEN a ELSE b

RECURSIVE SumSeq(_)
SumSeq(s) == IF s = << >> THEN 0 ELSE s[1] + SumSeq(Tail(s))

GroupKeys(groups) == {groups[i].repo : i \in 1..Len(groups)}

\* groups[repo]
GroupRows(groups, repo) ==
    LET i == CHOOSE k \in 1..Len(groups) : groups[k].repo = repo
    IN  groups[i].rows

\* sum(len(items) for items in groups.values())
TotalLen(groups) == SumSeq([i \in 1..Len(groups) |-> Len(groups[i].rows)])

EmptyDict == [r \in {} |-> 0]

\* d[k] = v on a dict given as a function
DictSet(d, k, v) == [r \in DOMAIN d \cup {k} |-> IF r = k THEN v ELSE d[r]]

(***************************************************************************)
(* proportional_allocations(groups, target_count), lines 61-93, as a frame *)
(* of its local variables and one step per statement or loop iteration.    *)
(***************************************************************************)
\* The frame on entry (line 61).
PaCall(groups, target_count) ==
    [pc |-> "enter", groups |-> groups, target_count |-> target_count,
     total |-> 0, base |-> EmptyDict, fractional |-> << >>, allocated |-> 0,
     share |-> FZero, exact |-> FZero,
     remainder |-> 0, progressed |-> FALSE, idx |-> 0]

\* Lines 62-68: the total, the empty-pool error, the empty accumulators.
PaEnter(f) ==
    LET total == TotalLen(f.groups)
    IN  IF total = 0
        THEN [f EXCEPT !.pc = "raised"]
        ELSE [f EXCEPT !.pc = "base", !.total = total, !.idx = 1]

\* Line 71, the quotient: len(items) / total, in doubles.
Share(len, total) == FDiv(len, total)

\* Line 71, the product: exact = target_count * (len(items) / total).
Exact(target_count, share) == FMulInt(target_count, share)

\* Variant without the cap of line 72, for the sensitivity of C2.
InitialUncapped(len, exact) == FFloor(exact)

\* Line 72: initial = min(len(items), math.floor(exact)).
Initial(len, exact) == Min(len, FFloor(exact))

\* Lines 70-71: the next item of groups.items(), and its quotient.
PaBase(f) ==
    IF f.idx > Len(f.groups)
    THEN [f EXCEPT !.pc = "sort"]
    ELSE [f EXCEPT !.share = Share(Len(f.groups[f.idx].rows), f.total),
                   !.pc = "exact"]

\* Line 71: exact is assigned.
PaExact(f) ==
    [f EXCEPT !.exact = Exact(f.target_count, f.share), !.pc = "initial"]

\* Lines 72-75: the capped floor, and the fractional part kept for the sort.
PaInitial(f) ==
    LET g == f.groups[f.idx]
        initial == Initial(Len(g.rows), f.exact)
    IN  [f EXCEPT !.base = DictSet(f.base, g.repo, initial),
                  !.allocated = f.allocated + initial,
                  !.fractional = Append(f.fractional,
                                   [repo |-> g.repo, frac |-> FFrac(f.exact)]),
                  !.idx = f.idx + 1,
                  !.pc = "base"]

\* Variant of the sort key without the name, for the sensitivity of C10.
SortKeyFractionOnly(x, y) == FracLess(y.frac, x.frac)

\* Line 78: the sort key (-it[1], it[0]) of x is less than that of y.
SortKeyLess(x, y) ==
    \/ FracLess(y.frac, x.frac)
    \/ (~FracLess(x.frac, y.frac) /\ ~FracLess(y.frac, x.frac)
        /\ StrLess(x.repo, y.repo))

\* list.sort is stable: s[j] ends up before s[i] when its key is less, or
\* when the keys are equal and it came first.
GoesBefore(s, j, i) ==
    \/ SortKeyLess(s[j], s[i])
    \/ (~SortKeyLess(s[i], s[j]) /\ j < i)

\* Line 78: fractional.sort(key=...), each element at the position given by
\* the number of elements that go before it.
SortFractional(s) ==
    [k \in 1..Len(s) |->
        s[CHOOSE i \in 1..Len(s) :
              Cardinality({j \in 1..Len(s) : GoesBefore(s, j, i)}) = k - 1]]

\* Line 77: remainder = max(0, target_count - allocated).
Remainder(target_count, allocated) == Max(0, target_count - allocated)

\* Lines 77-78.
PaSort(f) ==
    [f EXCEPT !.remainder = Remainder(f.target_count, f.allocated),
              !.fractional = SortFractional(f.fractional),
              !.pc = "while"]

\* Lines 80-81: the while test, and the start of a pass.
PaWhile(f) ==
    IF f.remainder > 0
    THEN [f EXCEPT !.progressed = FALSE, !.idx = 1, !.pc = "for"]
    ELSE [f EXCEPT !.pc = "return"]

\* Line 85: the group is at its cap.
Capped(f, repo) == f.base[repo] >= Len(GroupRows(f.groups, repo))

\* Lines 82-89: one iteration of the pass over the priority list.
PaFor(f) ==
    IF f.idx > Len(f.fractional) THEN [f EXCEPT !.pc = "endpass"]
    ELSE IF f.remainder <= 0 THEN [f EXCEPT !.pc = "endpass"]
    ELSE LET repo == f.fractional[f.idx].repo
         IN  IF Capped(f, repo) THEN [f EXCEPT !.idx = f.idx + 1]
             ELSE [f EXCEPT !.base[repo] = f.base[repo] + 1,
                            !.remainder = f.remainder - 1,
                            !.progressed = TRUE,
                            !.idx = f.idx + 1]

\* Variant without the no-progress exit, for the sensitivity of C9.
PaEndPassAgain(f) == [f EXCEPT !.pc = "while"]

\* Lines 90-91: a pass that granted nothing ends the loop.
PaEndPass(f) ==
    IF ~f.progressed THEN [f EXCEPT !.pc = "return"]
    ELSE [f EXCEPT !.pc = "while"]

\* Line 93.
PaReturn(f) == [f EXCEPT !.pc = "returned"]

PaDone(f) == f.pc \in {"returned", "raised", "idle"}

PaStep(f) ==
    CASE f.pc = "enter" -> PaEnter(f)
      [] f.pc = "base" -> PaBase(f)
      [] f.pc = "exact" -> PaExact(f)
      [] f.pc = "initial" -> PaInitial(f)
      [] f.pc = "sort" -> PaSort(f)
      [] f.pc = "while" -> PaWhile(f)
      [] f.pc = "for" -> PaFor(f)
      [] f.pc = "endpass" -> PaEndPass(f)
      [] f.pc = "return" -> PaReturn(f)

\* The call run to its end: the frame at the return or at the raise.
RECURSIVE PaRun(_)
PaRun(f) == IF PaDone(f) THEN f ELSE PaRun(PaStep(f))

(***************************************************************************)
(* random.Random.  A generator is [key, hist]: the seed it was made from   *)
(* and the calls made on it so far.  What a call returns is a function of  *)
(* the generator's state and the call alone; which function is left open:  *)
(* `oracle` holds the answers given so far, and an answer given once is    *)
(* the answer for good.                                                    *)
(***************************************************************************)
VARIABLES pa, run, prev, oracle

vars == <<pa, run, prev, oracle>>

\* random.Random(a): a fresh generator seeded with a.
Random(a) == [key |-> a, hist |-> << >>]

\* Variant seeded per run instead of by --seed, for the sensitivity of C3.
TopSeedOfRun(r) == [seed |-> r.id, repo |-> ""]

\* Line 105: the seed of the top-level generator, random.Random(seed).
TopSeed(r) == [seed |-> r.seed, repo |-> ""]

\* Line 112: the seed of a group's generator, f"{seed}:{repo}".
RepoSeed(r, repo) == [seed |-> r.seed, repo |-> repo]

\* Variant that samples with replacement, for the sensitivity of C6.
SampleWithReplacement(len, n) == [1..n -> 1..len]

\* The injective sequences of n positions of a list of `len` elements: what
\* sample(population, n) can return (sampling without replacement).
SampleOutcomes(len, n) ==
    {p \in [1..n -> 1..len] : \A i, j \in 1..n : i # j => p[i] # p[j]}

\* What shuffle can leave: any order of the `len` elements.
ShuffleOutcomes(len) == SampleOutcomes(len, len)

\* The question a call puts to the oracle.
Ask(rng, op, len, n) ==
    [key |-> rng.key, hist |-> rng.hist, op |-> op, len |-> len, n |-> n]

\* The answers the oracle may give to question q, out of `all`.
Answers(q, all) == IF q \in DOMAIN oracle THEN {oracle[q]} ELSE all

Learn(q, ans) ==
    [k \in DOMAIN oracle \cup {q} |-> IF k = q THEN ans ELSE oracle[k]]

\* The generator after a call.
Used(rng, op, len, n) ==
    [rng EXCEPT !.hist = Append(@, [op |-> op, len |-> len, n |-> n])]

(***************************************************************************)
(* main and build_sample: a run is the frame of their local variables.     *)
(***************************************************************************)
\* The repos of the instances file, and the value of --seed (a second run
\* reuses the first run's seed, so one value covers the claims).
RunRepos == {"a", "b"}

Seeds == {1}

\* The instances file after load_instances' normalisation, lines 34-42: a
\* list of rows; the k-th row of a repo in the file is the row <<repo, k>>.
CountBefore(s, i) == Cardinality({j \in 1..(i - 1) : s[j] = s[i]})

Payload(s) ==
    [i \in 1..Len(s) |->
        [instance_id |-> <<s[i], CountBefore(s, i) + 1>>, repo |-> s[i]]]

Payloads == {Payload(s) : s \in UNION {[1..n -> RunRepos] : n \in 0..MaxLen}}

\* The values of --count tried: refused ones, and 1 .. MaxCount.
Counts == (-1)..MaxCount

NoSample == [count |-> -1, sampleId |-> << >>, strata |-> << >>, instances |-> << >>]

\* The frame of a run about to start: python swebench-sample.py --count c
\* --seed sd --instances-file <a file holding `payload`>.
RunCall(id, payload, c, sd) ==
    [id |-> id, pc |-> "main", count |-> c, seed |-> sd, payload |-> payload,
     instances |-> << >>, groups |-> << >>, target |-> 0,
     allocations |-> EmptyDict, rng |-> Random([seed |-> sd, repo |-> ""]),
     order |-> << >>, pos |-> 0, selected |-> << >>, strata |-> << >>,
     sample |-> NoSample]

Idle == PaCall(<< >>, 0)

\* Variant that lets a count of 0 through, for the sensitivity of C7.
BadCountNegative(c) == c < 0

\* Line 150: the arguments main refuses.
BadCount(c) == c < 1

\* Lines 149-151.
MainCheck(r) ==
    IF BadCount(r.count) THEN [r EXCEPT !.pc = "error"]
    ELSE [r EXCEPT !.pc = "load"]

\* Lines 153, 29-45: load_instances raises on a file without a valid row.
LoadInstances(r) ==
    IF r.payload = << >> THEN [r EXCEPT !.pc = "error"]
    ELSE [r EXCEPT !.instances = r.payload, !.pc = "build"]

\* Lines 97-99: groups[row["repo"]].append(row), for the rows in order.
RECURSIVE GroupBy(_, _)
GroupBy(groups, rows) ==
    IF rows = << >> THEN groups
    ELSE LET row == rows[1]
             next ==
                 IF row.repo \in GroupKeys(groups)
                 THEN [i \in 1..Len(groups) |->
                          IF groups[i].repo = row.repo
                          THEN [groups[i] EXCEPT !.rows = Append(@, row)]
                          ELSE groups[i]]
                 ELSE Append(groups, [repo |-> row.repo, rows |-> <<row>>])
         IN  GroupBy(next, Tail(rows))

\* sorted(groups.keys()), line 109.
RECURSIVE SortedKeys(_)
SortedKeys(keys) ==
    IF keys = {} THEN << >>
    ELSE LET m == CHOOSE k \in keys : \A o \in keys : ~StrLess(o, k)
         IN  <<m>> \o SortedKeys(keys \ {m})

\* Line 109: the order in which the draw loop visits the groups.
DrawOrder(groups) == SortedKeys(GroupKeys(groups))

\* Lines 97-107: the groups, the target, the allocation, the generator.
Prepare(r) ==
    LET groups == GroupBy(<< >>, r.instances)
        target == Min(r.count, TotalLen(groups))
        f == PaRun(PaCall(groups, target))
    IN  IF f.pc = "raised" THEN [r EXCEPT !.pc = "error"]
        ELSE [r EXCEPT !.groups = groups, !.target = target,
                       !.allocations = f.base,
                       !.rng = Random(TopSeed(r)),
                       !.order = DrawOrder(groups), !.pos = 1,
                       !.selected = << >>, !.strata = << >>,
                       !.pc = "draw"]

\* Line 111: allocations.get(repo, 0).
AllocGet(allocations, repo) ==
    IF repo \in DOMAIN allocations THEN allocations[repo] ELSE 0

\* Variant that draws every group from the top-level generator, for the
\* sensitivity of C4.
SharedRng(r, repo) == r.rng

\* Lines 112-113: the generator the group's sample is drawn from.
SampleRng(r, repo) == Random(RepoSeed(r, repo))

\* Lines 110-121 for the group at r.pos, the sample having answered `picks`.
DrawGroup(r, picks) ==
    LET repo == r.order[r.pos]
        rows == GroupRows(r.groups, repo)
        n == AllocGet(r.allocations, repo)
        g == SampleRng(r, repo)
        picked == [i \in 1..Len(picks) |-> rows[picks[i]]]
    IN  [r EXCEPT !.selected = r.selected \o picked,
                  !.strata = Append(r.strata,
                      [repo |-> repo, available |-> Len(rows), selected |-> n]),
                  !.rng = IF n > 0 /\ g.key = r.rng.key
                          THEN Used(r.rng, "sample", Len(rows), n) ELSE r.rng,
                  !.pos = r.pos + 1]

\* Variant numbering from 0, for the sensitivity of C5.
InstanceIndexFromZero(i) == i - 1

\* Line 133: enumerate(selected, start=1).
InstanceIndex(i) == i

\* Lines 125-145: the rows of the sample and the returned dict.
Emit(r) ==
    [r EXCEPT !.sample =
                 [count |-> r.target,
                  sampleId |-> <<"swebench", "test", r.target, r.seed>>,
                  strata |-> r.strata,
                  instances |->
                     [i \in 1..Len(r.selected) |->
                         [instance_id |-> r.selected[i].instance_id,
                          repo |-> r.selected[i].repo,
                          stratum |-> r.selected[i].repo,
                          instanceIndex |-> InstanceIndex(i)]]],
              !.pc = "done"]

NoRun == RunCall(0, << >>, 0, 0)

Init ==
    /\ pa = Idle
    /\ prev = NoRun
    /\ oracle = [q \in {} |-> << >>]
    /\ \E p \in Payloads, c \in Counts, sd \in Seeds :
           run = RunCall(1, p, c, sd)

Main ==
    /\ run.pc = "main"
    /\ run' = MainCheck(run)
    /\ UNCHANGED <<pa, prev, oracle>>

Load ==
    /\ run.pc = "load"
    /\ run' = LoadInstances(run)
    /\ UNCHANGED <<pa, prev, oracle>>

Build ==
    /\ run.pc = "build"
    /\ run' = Prepare(run)
    /\ UNCHANGED <<pa, prev, oracle>>

\* One iteration of the loop of lines 109-121.
Draw ==
    /\ run.pc = "draw"
    /\ run.pos <= Len(run.order)
    /\ LET repo == run.order[run.pos]
           len == Len(GroupRows(run.groups, repo))
           n == AllocGet(run.allocations, repo)
           g == SampleRng(run, repo)
           q == Ask(g, "sample", len, n)
       IN  IF n > 0
           THEN \E picks \in Answers(q, SampleOutcomes(len, n)) :
                    /\ run' = DrawGroup(run, picks)
                    /\ oracle' = Learn(q, picks)
           ELSE /\ run' = DrawGroup(run, << >>)
                /\ oracle' = oracle
    /\ UNCHANGED <<pa, prev>>

\* Line 123: rng.shuffle(selected).
Shuffle ==
    /\ run.pc = "draw"
    /\ run.pos > Len(run.order)
    /\ LET len == Len(run.selected)
           q == Ask(run.rng, "shuffle", len, 0)
       IN  \E p \in Answers(q, ShuffleOutcomes(len)) :
               /\ run' = [run EXCEPT
                             !.selected = [i \in 1..len |-> run.selected[p[i]]],
                             !.rng = Used(run.rng, "shuffle", len, 0),
                             !.pc = "emit"]
               /\ oracle' = Learn(q, p)
    /\ UNCHANGED <<pa, prev>>

Return ==
    /\ run.pc = "emit"
    /\ run' = Emit(run)
    /\ UNCHANGED <<pa, prev, oracle>>

\* The script is run a second time, with the same --seed: the first run is
\* kept for comparison.
Rerun ==
    /\ run.id = 1
    /\ run.pc \in {"done", "error"}
    /\ prev' = run
    /\ \E p \in Payloads, c \in Counts :
           run' = RunCall(2, p, c, run.seed)
    /\ UNCHANGED <<pa, oracle>>

Next ==
    \/ Main
    \/ Load
    \/ Build
    \/ Draw
    \/ Shuffle
    \/ Return
    \/ Rerun

Spec == Init /\ [][Next]_vars

(***************************************************************************)
(* The allocator on its own: every dict of up to three groups of up to     *)
(* MaxSize rows each, in every insertion order, and every target from 0 to *)
(* MaxOver beyond the pool size.                                           *)
(***************************************************************************)
\* The rows of a group of the harness: n rows <<repo, 1>> .. <<repo, n>>.
Rows(repo, n) == [i \in 1..n |-> [instance_id |-> <<repo, i>>, repo |-> repo]]

\* Every dict over Repos: an order of some of the names, and a size each.
RepoOrders ==
    {s \in UNION {[1..n -> Repos] : n \in 0..Cardinality(Repos)} :
        \A i, j \in 1..Len(s) : i # j => s[i] # s[j]}

GroupDicts ==
    UNION {{[i \in 1..Len(o) |-> [repo |-> o[i], rows |-> Rows(o[i], sz[i])]] :
               sz \in [1..Len(o) -> 0..MaxSize]} : o \in RepoOrders}

InitAlloc ==
    \E g \in GroupDicts :
        \E t \in 0..(TotalLen(g) + MaxOver) :
            /\ pa = PaCall(g, t)
            /\ run = NoRun
            /\ prev = NoRun
            /\ oracle = [q \in {} |-> << >>]

AllocEnter ==
    /\ pa.pc = "enter"
    /\ pa' = PaEnter(pa)
    /\ UNCHANGED <<run, prev, oracle>>

AllocBase ==
    /\ pa.pc = "base"
    /\ pa' = PaBase(pa)
    /\ UNCHANGED <<run, prev, oracle>>

AllocExact ==
    /\ pa.pc = "exact"
    /\ pa' = PaExact(pa)
    /\ UNCHANGED <<run, prev, oracle>>

AllocInitial ==
    /\ pa.pc = "initial"
    /\ pa' = PaInitial(pa)
    /\ UNCHANGED <<run, prev, oracle>>

AllocSort ==
    /\ pa.pc = "sort"
    /\ pa' = PaSort(pa)
    /\ UNCHANGED <<run, prev, oracle>>

AllocWhile ==
    /\ pa.pc = "while"
    /\ pa' = PaWhile(pa)
    /\ UNCHANGED <<run, prev, oracle>>

AllocFor ==
    /\ pa.pc = "for"
    /\ pa' = PaFor(pa)
    /\ UNCHANGED <<run, prev, oracle>>

AllocEndPass ==
    /\ pa.pc = "endpass"
    /\ pa' = PaEndPass(pa)
    /\ UNCHANGED <<run, prev, oracle>>

AllocReturn ==
    /\ pa.pc = "return"
    /\ pa' = PaReturn(pa)
    /\ UNCHANGED <<run, prev, oracle>>

NextAlloc ==
    \/ AllocEnter
    \/ AllocBase
    \/ AllocExact
    \/ AllocInitial
    \/ AllocSort
    \/ AllocWhile
    \/ AllocFor
    \/ AllocEndPass
    \/ AllocReturn

SpecAlloc == InitAlloc /\ [][NextAlloc]_vars

\* The loops of lines 70-91 are plain sequential code: a step that can be
\* taken is taken.
FairSpecAlloc == SpecAlloc /\ WF_vars(NextAlloc)
(***************************************************************************)
(* Properties of proportional_allocations (checked under SpecAlloc).       *)
(***************************************************************************)
RECURSIVE SumDict(_)
SumDict(d) ==
    IF DOMAIN d = {} THEN 0
    ELSE LET k == CHOOSE x \in DOMAIN d : TRUE
         IN  d[k] + SumDict([r \in DOMAIN d \ {k} |-> d[r]])

PaSize(repo) == Len(GroupRows(pa.groups, repo))

PaTotal == TotalLen(pa.groups)

InRange == 0 <= pa.target_count /\ pa.target_count <= PaTotal

\* C1: for every pool, a pool without records included, and every target
\* with 0 <= target <= total, the call returns an allocation whose counts sum
\* to target.
C1_ConservationAnyPool ==
    (PaDone(pa) /\ InRange)
        => (pa.pc = "returned" /\ SumDict(pa.base) = pa.target_count)

\* What the code does on those inputs: for a pool with at least one record
\* the call returns an allocation whose counts sum to target; for a pool
\* without records it raises (lines 63-64) and returns nothing.
ConservationOrRaise ==
    (PaDone(pa) /\ InRange)
        => IF PaTotal = 0
           THEN pa.pc = "raised" /\ pa.base = EmptyDict
           ELSE pa.pc = "returned" /\ SumDict(pa.base) = pa.target_count

\* C2: in every state of the allocation and in the result, every group's
\* count is at least 0 and at most the group's size.
C2_Capacity ==
    \A repo \in DOMAIN pa.base :
        0 <= pa.base[repo] /\ pa.base[repo] <= PaSize(repo)

\* inside a pass of the remainder loop, a unit granted has brought a group
\* to its size
C2_Witness ==
    /\ pa.pc = "for"
    /\ pa.progressed
    /\ \E repo \in DOMAIN pa.base :
           /\ PaSize(repo) > 0
           /\ pa.base[repo] = PaSize(repo)
           /\ pa.fractional[pa.idx - 1].repo = repo

\* The exact share of a group is target * size / total: its floor, and its
\* fractional part as a numerator over total.
ShareFloor(repo) == (pa.target_count * PaSize(repo)) \div PaTotal

ShareFrac(repo) == (pa.target_count * PaSize(repo)) % PaTotal

\* g comes before h in the priority order: larger fractional part first,
\* ties by ascending name.
Before(g, h) ==
    \/ ShareFrac(g) > ShareFrac(h)
    \/ (ShareFrac(g) = ShareFrac(h) /\ StrLess(g, h))

LargestRemainder(repo) ==
    LET keys == GroupKeys(pa.groups)
        r == pa.target_count
               - SumDict([k \in keys |-> ShareFloor(k)])
        rank == Cardinality({h \in keys : Before(h, repo)})
    IN  ShareFloor(repo) + (IF rank < r THEN 1 ELSE 0)

\* C8: for total > 0 and 0 <= target <= total the returned count of each
\* group is the floor of its exact share, plus one for exactly the first r
\* groups by descending fractional part of the exact share, ties by name.
C8_LargestRemainder ==
    (pa.pc = "returned" /\ InRange)
        => \A repo \in GroupKeys(pa.groups) :
               pa.base[repo] = LargestRemainder(repo)

\* C9: for every pool with total > 0 and every target, beyond the pool size
\* too, the call returns; the loop ends once remainder is zero and after a
\* pass that granted nothing; remainder never grows, and a pass that has
\* progressed has decreased it.
C9_Termination ==
    /\ (pa.pc = "enter" /\ PaTotal > 0) ~> (pa.pc = "returned")
    /\ [][/\ (pa.pc = "endpass" /\ ~pa.progressed) => pa'.pc = "return"
          /\ (pa.pc = "while" /\ pa.remainder = 0) => pa'.pc = "return"
          /\ (pa.pc = "for" /\ pa.remainder = 0) => pa'.pc = "endpass"
          /\ pa.pc \in {"while", "for", "endpass"}
                => pa'.remainder <= pa.remainder
          /\ (pa.pc = "for" /\ ~pa.progressed /\ pa'.progressed)
                => pa'.remainder < pa.remainder]_vars

\* a target beyond the pool size: every group capped, a pass that granted
\* nothing, and the call returned with units left over
C9_Witness ==
    /\ pa.pc = "returned"
    /\ pa.target_count > PaTotal
    /\ pa.remainder > 0
    /\ ~pa.progressed

(***************************************************************************)
(* Properties of main and build_sample (checked under Spec).               *)
(***************************************************************************)
Finished(r) == r.pc = "done"

Ended(r) == r.pc \in {"done", "error"}

\* The rows of a repo in a list of rows, in order.
RowsOf(rows, repo) == SelectSeq(rows, LAMBDA row : row.repo = repo)

\* The instance ids of the rows of the returned sample whose stratum is repo.
DrawnFrom(r, repo) ==
    {r.sample.instances[i].instance_id :
        i \in {j \in 1..Len(r.sample.instances) :
                  r.sample.instances[j].stratum = repo}}

SecondRun == run.id = 2 /\ Ended(run)

SameArguments ==
    /\ run.payload = prev.payload
    /\ run.count = prev.count
    /\ run.seed = prev.seed

\* C3: two runs on the same pool, count and seed end alike and return the
\* same sample: strata report, rows, order and instanceIndex.
C3_Determinism ==
    (SecondRun /\ SameArguments)
        => (run.pc = prev.pc /\ run.sample = prev.sample)

\* a second run on the first run's arguments, where a group's draw and the
\* shuffle each had a choice
C3_Witness ==
    /\ SecondRun
    /\ SameArguments
    /\ Finished(run)
    /\ run.target >= 2
    /\ \E repo \in GroupKeys(run.groups) :
           /\ run.allocations[repo] > 0
           /\ run.allocations[repo] < Len(GroupRows(run.groups, repo))

\* Group `repo` has the same rows and the same allocation in both runs.
SameStratum(repo) ==
    /\ repo \in GroupKeys(run.groups) \cap GroupKeys(prev.groups)
    /\ GroupRows(run.groups, repo) = GroupRows(prev.groups, repo)
    /\ run.allocations[repo] = prev.allocations[repo]

\* C4: with the same seed, a group with the same rows and the same
\* allocation in two pools has the same records drawn, whatever the other
\* groups hold.
C4_StratumIsolation ==
    (SecondRun /\ Finished(run) /\ Finished(prev) /\ run.seed = prev.seed)
        => \A repo \in RunRepos :
               SameStratum(repo) => DrawnFrom(run, repo) = DrawnFrom(prev, repo)

\* two finished runs whose pools differ in another group only, and a draw
\* from the common group that had a choice
C4_Witness ==
    /\ SecondRun
    /\ Finished(run)
    /\ Finished(prev)
    /\ \E repo \in RunRepos :
           /\ SameStratum(repo)
           /\ run.allocations[repo] > 0
           /\ run.allocations[repo] < Len(GroupRows(run.groups, repo))
           /\ \E other \in RunRepos \ {repo} :
                  RowsOf(run.payload, other) # RowsOf(prev.payload, other)

\* C5: a run that returns has target = min(count, pool size) rows, reports
\* that count, numbers the rows 1, 2, .., target in output order, and gives
\* each row its group as stratum.
C5_SampleShape ==
    Finished(run)
        => LET rows == run.sample.instances
               target == Min(run.count, Len(run.payload))
           IN  /\ Len(rows) = target
               /\ run.sample.count = target
               /\ \A i \in 1..Len(rows) :
                      /\ rows[i].instanceIndex = i
                      /\ rows[i].stratum = rows[i].repo
                      /\ \E j \in 1..Len(run.payload) :
                             /\ run.payload[j].instance_id = rows[i].instance_id
                             /\ run.payload[j].repo = rows[i].stratum

\* a returned sample of two rows from different groups, out of a larger pool
C5_Witness ==
    /\ Finished(run)
    /\ run.count < Len(run.payload)
    /\ Len(run.sample.instances) >= 2
    /\ run.sample.instances[1].stratum # run.sample.instances[2].stratum

\* C6: the strata report has one entry per group, in ascending order of
\* name, with the group's size and its allocation; the rows of each stratum
\* are as many as its `selected`, are rows of that group, and no row of the
\* pool is in the sample twice.
C6_StrataReport ==
    Finished(run)
        => LET strata == run.sample.strata
               rows == run.sample.instances
               keys == {run.payload[i].repo : i \in 1..Len(run.payload)}
           IN  /\ {strata[i].repo : i \in 1..Len(strata)} = keys
               /\ Len(strata) = Cardinality(keys)
               /\ \A i \in 1..(Len(strata) - 1) :
                      StrLess(strata[i].repo, strata[i + 1].repo)
               /\ \A i \in 1..Len(strata) :
                      /\ strata[i].available
                            = Len(RowsOf(run.payload, strata[i].repo))
                      /\ strata[i].selected = run.allocations[strata[i].repo]
                      /\ Cardinality({j \in 1..Len(rows) :
                                         rows[j].stratum = strata[i].repo})
                            = strata[i].selected
                      /\ DrawnFrom(run, strata[i].repo)
                            \subseteq {run.payload[j].instance_id :
                                          j \in {k \in 1..Len(run.payload) :
                                                    run.payload[k].repo
                                                       = strata[i].repo}}
               /\ \A i, j \in 1..Len(rows) :
                      i # j => rows[i].instance_id # rows[j].instance_id

\* a returned sample with two strata, the second in insertion order first in
\* the report, and a group that had more rows than were drawn from it
C6_Witness ==
    /\ Finished(run)
    /\ Len(run.sample.strata) = 2
    /\ run.groups[1].repo = run.sample.strata[2].repo
    /\ \E i \in 1..2 :
           /\ run.sample.strata[i].selected >= 1
           /\ run.sample.strata[i].selected < run.sample.strata[i].available

\* C7: a run with --count below 1 ends in the error raised by main, and
\* never holds an allocation, a strata report or sample rows.
C7_BadCountRejected ==
    run.count < 1
        => /\ run.pc \in {"main", "error"}
           /\ run.allocations = EmptyDict
           /\ run.strata = << >>
           /\ run.sample = NoSample

\* a run refused for its count, over a pool that has rows
C7_Witness ==
    /\ run.count < 1
    /\ run.pc = "error"
    /\ run.payload # << >>

\* The second pool is the first one reordered, the order of the rows inside
\* each group kept.
Reordered ==
    /\ Len(run.payload) = Len(prev.payload)
    /\ \A repo \in RunRepos :
           RowsOf(run.payload, repo) = RowsOf(prev.payload, repo)

\* C10: two runs on reorderings of the same rows that keep the order inside
\* each group, with the same count and seed, give the same allocation, the
\* same strata report, the same draws and the same final output.
C10_OrderIndependence ==
    (SecondRun /\ Reordered /\ run.count = prev.count /\ run.seed = prev.seed)
        => /\ run.pc = prev.pc
           /\ run.allocations = prev.allocations
           /\ run.sample = prev.sample

\* two finished runs whose groups were met in a different order, with a unit
\* of remainder to hand out
C10_Witness ==
    /\ SecondRun
    /\ Reordered
    /\ Finished(run)
    /\ Finished(prev)
    /\ run.count = prev.count
    /\ Len(run.groups) = 2
    /\ run.groups[1].repo # prev.groups[1].repo
    /\ run.target < Len(run.payload)
====
